---- MODULE Spec2Model ----
(***************************************************************************)
(* stablewatch: the frame-analysis pipeline (horse_barn_monitor.py) and    *)
(* the two polling loops (barn_monitor_realtime.py).                       *)
(*                                                                         *)
(* Text is modelled as a sequence of tokens.  A token is a record          *)
(* [k, v]: k is the lexical class, v the characters.                       *)
(*   "p"    one punctuation character  { } [ ] : ,                         *)
(*   "str"  a complete double-quoted string, v is its content              *)
(*   "ustr" a string cut before its closing quote (v is what is left)      *)
(*   "num"  a run of digits and dots                                       *)
(*   "lit"  the JSON literal null                                          *)
(*   "ws"   one whitespace character, "\n" or " "                          *)
(*   "word" unquoted letters (prose, the fence tag)                        *)
(*   "fence" three backticks                                               *)
(* String contents hold no quote and no backslash, a "ustr" is followed by *)
(* no further quote, and a list holds no empty string: under these the     *)
(* character patterns of the source match exactly where the token          *)
(* patterns below do.                                                      *)
(***************************************************************************)
EXTENDS Integers, Sequences, FiniteSets, TLC

Tok(k, v) == [k |-> k, v |-> v]
LBRACE == Tok("p", "{")
RBRACE == Tok("p", "}")
LBRACK == Tok("p", "[")
RBRACK == Tok("p", "]")
COLON == Tok("p", ":")
COMMA == Tok("p", ",")
NL == Tok("ws", "\n")
SP == Tok("ws", " ")
FENCE == Tok("fence", "FENCE")
NULL == Tok("lit", "null")
Str(s) == Tok("str", s)
UStr(s) == Tok("ustr", s)
Num(s) == Tok("num", s)
Word(s) == Tok("word", s)

\* A string literal whose content is a prose word between two fences, and
\* the text of that content ("~~~" stands for the three backticks).
FStr(s) == Tok("fstr", s)

Fenced(s) == "~~~" \o s \o "~~~"

\* What is between the quotes of a string literal.
StrText(tok) == IF tok.k = "fstr" THEN Fenced(tok.v) ELSE tok.v

(***************************************************************************)
(* Python values.  Every value has the same four fields so that any two    *)
(* can be compared: t is the type, s a string, n an integer, a the         *)
(* elements of a list.  Absent stands for a key the dict does not hold.    *)
(***************************************************************************)
Val(t, s, n, a) == [t |-> t, s |-> s, n |-> n, a |-> a]
Absent == Val("absent", "", 0, <<>>)
PyStr(s) == Val("str", s, 0, <<>>)
PyFloat(s) == Val("float", s, 0, <<>>)
PyInt(n) == Val("int", "", n, <<>>)
PyNone == Val("none", "", 0, <<>>)
PyTrue == Val("bool", "True", 1, <<>>)
PyList(a) == Val("list", "", 0, a)

\* The dict keys the program reads or writes.
Keys == {"severity", "description", "hazards", "horse_state", "confidence", "recommended_action", "truncated", "latency_s", "frame", "error", "video_timestamp", "video_timestamp_s"}

EmptyDict == [key \in Keys |-> Absent]

\* d[key] = value; a key the program never reads is dropped.
SetItem(d, key, value) == IF key \in Keys THEN [d EXCEPT ![key] = value] ELSE d

\* key in d
Has(d, key) == d[key] # Absent

\* d.get(key, default)
Get(d, key, default) == IF Has(d, key) THEN d[key] ELSE default

(***************************************************************************)
(* str.strip() and the whitespace the patterns skip with \s*.              *)
(***************************************************************************)
IsWs(tok) == tok.k = "ws"

RECURSIVE SkipWs(_, _)
SkipWs(toks, i) == IF i <= Len(toks) /\ IsWs(toks[i]) THEN SkipWs(toks, i + 1) ELSE i

RECURSIVE SkipWsBack(_, _)
SkipWsBack(toks, i) == IF i >= 1 /\ IsWs(toks[i]) THEN SkipWsBack(toks, i - 1) ELSE i

Strip(toks) == SubSeq(toks, SkipWs(toks, 1), SkipWsBack(toks, Len(toks)))

\* The least index >= i holding tok, or Len(toks) + 1.
RECURSIVE IndexFrom(_, _, _)
IndexFrom(toks, i, tok) == IF i > Len(toks) \/ toks[i] = tok THEN i ELSE IndexFrom(toks, i + 1, tok)

(***************************************************************************)
(* json.loads on a token sequence.  Objects hold scalars and lists, lists  *)
(* hold scalars; the texts of this model nest no deeper.  A result is      *)
(* [ok, val, next, members]: next is the index after the value, members    *)
(* the dict when val is one.  Each step of the parser is an operator that  *)
(* is handed what the step before it found.                                *)
(***************************************************************************)
\* Digits and dots that json accepts as a number.
JsonNumbers == {"0.9", "0.5", "1"}

Fail == [ok |-> FALSE, val |-> Absent, next |-> 0, members |-> EmptyDict]

Ok(val, next) == [ok |-> TRUE, val |-> val, next |-> next, members |-> EmptyDict]

OkDict(d, next) == [ok |-> TRUE, val |-> Val("dict", "", 0, <<>>), next |-> next, members |-> d]

ScalarOf(tok, next) ==
    IF tok.k \in {"str", "fstr"} THEN Ok(PyStr(StrText(tok)), next)
    ELSE IF tok.k = "num" /\ tok.v \in JsonNumbers THEN Ok(PyFloat(tok.v), next)
    ELSE IF tok.k = "lit" THEN Ok(PyNone, next)
    ELSE Fail

ParseScalar(toks, i) == IF i > Len(toks) THEN Fail ELSE ScalarOf(toks[i], i + 1)

\* The elements after "[" or after a comma, up to and including "]".
RECURSIVE ParseElems(_, _, _)
ElemNext(toks, j, acc) ==
    IF j > Len(toks) THEN Fail
    ELSE IF toks[j] = RBRACK THEN Ok(PyList(acc), j + 1)
    ELSE IF toks[j] = COMMA THEN ParseElems(toks, SkipWs(toks, j + 1), acc)
    ELSE Fail

ElemDone(toks, e, acc) == IF ~e.ok THEN Fail ELSE ElemNext(toks, SkipWs(toks, e.next), Append(acc, e.val))

ParseElems(toks, i, acc) == ElemDone(toks, ParseScalar(toks, i), acc)

ArrayAt(toks, j) ==
    IF j > Len(toks) THEN Fail
    ELSE IF toks[j] = RBRACK THEN Ok(PyList(<<>>), j + 1)
    ELSE ParseElems(toks, j, <<>>)

ParseArray(toks, i) == ArrayAt(toks, SkipWs(toks, i + 1))

ParseMemberValue(toks, i) ==
    IF i <= Len(toks) /\ toks[i] = LBRACK THEN ParseArray(toks, i) ELSE ParseScalar(toks, i)

\* The members after "{" or after a comma, up to and including "}".
\* acc is the dict so far: a repeated key keeps its last value.
RECURSIVE ParseMembers(_, _, _)
MemberNext(toks, j, d) ==
    IF j > Len(toks) THEN Fail
    ELSE IF toks[j] = RBRACE THEN OkDict(d, j + 1)
    ELSE IF toks[j] = COMMA THEN ParseMembers(toks, SkipWs(toks, j + 1), d)
    ELSE Fail

MemberDone(toks, i, v, acc) ==
    IF ~v.ok THEN Fail ELSE MemberNext(toks, SkipWs(toks, v.next), SetItem(acc, StrText(toks[i]), v.val))

MemberColon(toks, i, c, acc) ==
    IF c > Len(toks) \/ toks[c] # COLON THEN Fail
    ELSE MemberDone(toks, i, ParseMemberValue(toks, SkipWs(toks, c + 1)), acc)

ParseMembers(toks, i, acc) ==
    IF i > Len(toks) \/ toks[i].k \notin {"str", "fstr"} THEN Fail
    ELSE MemberColon(toks, i, SkipWs(toks, i + 1), acc)

ObjectAt(toks, j) ==
    IF j > Len(toks) THEN Fail
    ELSE IF toks[j] = RBRACE THEN OkDict(EmptyDict, j + 1)
    ELSE ParseMembers(toks, j, EmptyDict)

ParseObject(toks, i) == ObjectAt(toks, SkipWs(toks, i + 1))

ParseValue(toks, i) ==
    IF i > Len(toks) THEN Fail
    ELSE IF toks[i] = LBRACE THEN ParseObject(toks, i)
    ELSE IF toks[i] = LBRACK THEN ParseArray(toks, i)
    ELSE ParseScalar(toks, i)

\* Anything but whitespace after the value is "Extra data".
NoExtraData(toks, r) == IF r.ok /\ SkipWs(toks, r.next) = Len(toks) + 1 THEN r ELSE Fail

\* json.loads(clean): one value, whitespace around it, nothing else.
\* ok = FALSE is json.JSONDecodeError.
JsonLoads(toks) == NoExtraData(toks, ParseValue(toks, SkipWs(toks, 1)))

(***************************************************************************)
(* analyze_frame, lines 236-246: the cleaning of the reply before the      *)
(* strict parse.                                                           *)
(***************************************************************************)
\* The lines of a text, split at "\n".
RECURSIVE SplitLines(_)
SplitAt(toks, e) ==
    IF e > Len(toks) THEN <<toks>>
    ELSE <<SubSeq(toks, 1, e - 1)>> \o SplitLines(SubSeq(toks, e + 1, Len(toks)))

SplitLines(toks) == SplitAt(toks, IndexFrom(toks, 1, NL))

\* "\n".join(lines)
RECURSIVE JoinLines(_)
JoinLines(lines) ==
    IF lines = <<>> THEN <<>>
    ELSE IF Len(lines) = 1 THEN lines[1]
    ELSE lines[1] \o <<NL>> \o JoinLines(Tail(lines))

StartsWithFence(toks) == toks # <<>> /\ toks[1] = FENCE

LineStartsWithFence(l) == StartsWithFence(Strip(l))

\* [l for l in lines if not l.strip().startswith(fence)]
DropFenceLines(lines) == SelectSeq(lines, LAMBDA l : ~LineStartsWithFence(l))

\* re.search(fence (?:json)? \s* \n? (.*?) \n? fence, clean, DOTALL):
\* the first fence, the tag when it follows at once, then up to the next
\* fence.  The pattern is searched anywhere in the text, so a fence inside
\* a string literal counts like any other.  f1 is the first fence, start
\* the index after fence and tag, f2 the next fence.
HasFence(tok) == tok = FENCE \/ tok.k = "fstr"

\* The least index >= i of a token holding a fence, or Len(toks) + 1.
RECURSIVE FenceIndex(_, _)
FenceIndex(toks, i) == IF i > Len(toks) \/ HasFence(toks[i]) THEN i ELSE FenceIndex(toks, i + 1)

\* The closing fence is the first one inside the string literal at f2: the
\* group ends with the opening quote of that literal.
FenceGroup(clean, f1, start, f2) ==
    IF f1 <= Len(clean) /\ f2 <= Len(clean)
    THEN [found |-> TRUE, group |-> SubSeq(clean, start, f2 - 1) \o (IF clean[f2].k = "fstr" THEN <<UStr("")>> ELSE <<>>)]
    ELSE [found |-> FALSE, group |-> <<>>]

FenceClose(clean, f1, start) == FenceGroup(clean, f1, start, FenceIndex(clean, start))

\* When the first fence is inside a string literal, the match is the
\* literal's own two fences and the group the word between them.
FenceOpen(clean, f1) ==
    IF f1 <= Len(clean) /\ clean[f1].k = "fstr" THEN [found |-> TRUE, group |-> <<Word(clean[f1].v)>>]
    ELSE FenceClose(clean, f1, IF f1 + 1 <= Len(clean) /\ clean[f1 + 1] = Word("json") THEN f1 + 2 ELSE f1 + 1)

FenceMatch(clean) == FenceOpen(clean, FenceIndex(clean, 1))

Unfence(clean, m) ==
    IF m.found THEN Strip(m.group)
    ELSE IF StartsWithFence(clean) THEN JoinLines(DropFenceLines(SplitLines(clean)))
    ELSE clean

Cleaned(clean) == Unfence(clean, FenceMatch(clean))

CleanReply(text) == Cleaned(Strip(text))

(***************************************************************************)
(* _extract_from_truncated: the field patterns, searched in the raw text.  *)
(***************************************************************************)
\* Strings made of word characters only (\w+).
WordStrings == {"SAFE", "MONITOR", "WARNING", "DANGER", "CRITICAL", "lying", "unknown", "emergency", "log", "CASTING", "severity", "description", "hazards", "horse_state", "confidence", "recommended_action", "error"}

\* The index after  "key" \s* : \s*  when the text has that at i, else 0.
AfterColon(raw, c) == IF c > Len(raw) \/ raw[c] # COLON THEN 0 ELSE SkipWs(raw, c + 1)

AfterKey(raw, i, key) == IF i > Len(raw) \/ raw[i] # Str(key) THEN 0 ELSE AfterColon(raw, SkipWs(raw, i + 1))

\* Whether the token at v completes the pattern of the given kind:
\*   "word"    "(\w+)"      "string"  "([^"]*)"      "number"  ([\d.]+)
ValueMatches(raw, v, kind) ==
    /\ v >= 1
    /\ v <= Len(raw)
    /\ \/ kind = "word" /\ raw[v].k = "str" /\ raw[v].v \in WordStrings
       \/ kind = "string" /\ raw[v].k \in {"str", "fstr"}
       \/ kind = "number" /\ raw[v].k = "num"

\* _find(pattern, raw, default): group 1 of the leftmost match, else default.
RECURSIVE FindFrom(_, _, _, _, _)
FindAt(raw, i, v, key, kind, default) ==
    IF ValueMatches(raw, v, kind) THEN StrText(raw[v]) ELSE FindFrom(raw, i + 1, key, kind, default)

FindFrom(raw, i, key, kind, default) ==
    IF i > Len(raw) THEN default ELSE FindAt(raw, i, AfterKey(raw, i, key), key, kind, default)

\* The text of raw[:200], the default description: the texts of this model
\* are shorter than 200 characters, so it is the whole text.  It is kept as
\* a marker, its characters are not compared.
RawPrefix == "<raw[:200]>"

\* float(s) succeeds on these; on any other run of digits and dots it
\* raises ValueError.
FloatStrings == JsonNumbers \cup {"1."}

\* Group 1 of the hazards pattern at the leftmost match: the tokens between
\* "[" and the first "]" after it; found = FALSE when no match.
RECURSIVE HazardsGroupFrom(_, _)
HazardsClose(raw, i, v, close) ==
    IF close <= Len(raw) THEN [found |-> TRUE, group |-> SubSeq(raw, v + 1, close - 1)]
    ELSE HazardsGroupFrom(raw, i + 1)

HazardsAt(raw, i, v) ==
    IF v >= 1 /\ v <= Len(raw) /\ raw[v] = LBRACK THEN HazardsClose(raw, i, v, IndexFrom(raw, v + 1, RBRACK))
    ELSE HazardsGroupFrom(raw, i + 1)

HazardsGroupFrom(raw, i) ==
    IF i > Len(raw) THEN [found |-> FALSE, group |-> <<>>] ELSE HazardsAt(raw, i, AfterKey(raw, i, "hazards"))

\* re.findall("([^"]+)", group): the contents of the non-empty strings.
RECURSIVE QuotedIn(_)
QuotedIn(group) ==
    IF group = <<>> THEN <<>>
    ELSE IF group[1].k \in {"str", "fstr"} /\ group[1].v # "" THEN <<PyStr(StrText(group[1]))>> \o QuotedIn(Tail(group))
    ELSE QuotedIn(Tail(group))

HazardsOf(haz) == IF haz.found THEN QuotedIn(haz.group) ELSE <<>>

\* Lines 116 and 125-133.  The result is [raised, d]: raised = TRUE is the
\* ValueError of float().
TruncatedDict(severity, description, hazards, horse_state, confidence, action) ==
    IF confidence \notin FloatStrings THEN [raised |-> TRUE, d |-> EmptyDict]
    ELSE [raised |-> FALSE,
          d |-> [EmptyDict EXCEPT !["severity"] = PyStr(severity),
                                  !["description"] = PyStr(description),
                                  !["hazards"] = PyList(hazards),
                                  !["horse_state"] = PyStr(horse_state),
                                  !["confidence"] = PyFloat(confidence),
                                  !["recommended_action"] = PyStr(action),
                                  !["truncated"] = PyTrue]]

ExtractFromTruncated(clean, raw) ==
    TruncatedDict(FindFrom(raw, 1, "severity", "word", "MONITOR"),
                  FindFrom(raw, 1, "description", "string", RawPrefix),
                  HazardsOf(HazardsGroupFrom(raw, 1)),
                  FindFrom(raw, 1, "horse_state", "string", "unknown"),
                  FindFrom(raw, 1, "confidence", "number", "0.5"),
                  FindFrom(raw, 1, "recommended_action", "string", "log"))

(***************************************************************************)
(* analyze_frame.  Its inputs are what the collaborators did:              *)
(*   enc   encode_image: "ok", "empty" (it returned no data) or "raise"    *)
(*         (PIL or open() raised: the call is outside every try)           *)
(*   inf   the inference call: "ok" or the text of the exception raised    *)
(*   text  the content of the first choice, as tokens                      *)
(*   latency  seconds from the request to the reply                        *)
(* The result is [raised, d]: raised = TRUE is an exception leaving        *)
(* analyze_frame, otherwise d is the dict returned.  The "timestamp" key   *)
(* (the wall clock) is not modelled.                                       *)
(***************************************************************************)
ErrorDict(cause, frame) == [EmptyDict EXCEPT !["error"] = PyStr(cause), !["frame"] = PyInt(frame)]

\* str(e) of the TypeError raised by analysis["latency_s"] = ... when
\* json.loads returned something that is no dict.
ItemAssignmentError(val) ==
    IF val.t = "list" THEN "list indices must be integers or slices, not str"
    ELSE "object does not support item assignment"

\* Lines 254-255: the keys stamped on a parsed reply.
Stamp(d, latency, frame) == [d EXCEPT !["latency_s"] = PyInt(latency), !["frame"] = PyInt(frame)]

\* Lines 250-252 and 263-268: the fallback, and the ValueError it may raise.
Fallback(fallback, latency, frame) ==
    IF fallback.raised THEN ErrorDict("could not convert string to float", frame)
    ELSE Stamp(fallback.d, latency, frame)

\* Lines 248-261: strict is what json.loads(clean) gave.
Parsed(strict, clean, text, latency, frame) ==
    IF strict.ok
    THEN IF strict.val.t = "dict" THEN Stamp(strict.members, latency, frame)
         ELSE ErrorDict(ItemAssignmentError(strict.val), frame)
    ELSE Fallback(ExtractFromTruncated(clean, text), latency, frame)

ParseClean(clean, text, latency, frame) == Parsed(JsonLoads(clean), clean, text, latency, frame)

\* Lines 236-261: from the reply text to the returned dict.
ParseReply(text, latency, frame) == ParseClean(CleanReply(text), text, latency, frame)

analyze_frame(enc, inf, text, latency, frame) ==
    IF enc = "raise" THEN [raised |-> TRUE, d |-> EmptyDict]
    ELSE IF enc = "empty" THEN [raised |-> FALSE, d |-> [EmptyDict EXCEPT !["error"] = PyStr("Failed to encode image")]]
    ELSE IF inf # "ok" THEN [raised |-> FALSE, d |-> ErrorDict(inf, frame)]
    ELSE [raised |-> FALSE, d |-> ParseReply(text, latency, frame)]

(***************************************************************************)
(* The polling loops: monitor_video and monitor_camera.                    *)
(***************************************************************************)
\* SEVERITY_LEVELS.get(severity, 0)
SEVERITY_LEVELS_UnknownAbove(severity) ==
    CASE severity = PyStr("SAFE") -> 0
      [] severity = PyStr("MONITOR") -> 1
      [] severity = PyStr("WARNING") -> 2
      [] severity = PyStr("DANGER") -> 3
      [] OTHER -> 1

SEVERITY_LEVELS(severity) ==
    CASE severity = PyStr("SAFE") -> 0
      [] severity = PyStr("MONITOR") -> 1
      [] severity = PyStr("WARNING") -> 2
      [] severity = PyStr("DANGER") -> 3
      [] OTHER -> 0

\* if sev_level >= 2
ShouldAlert(sev_level) == sev_level >= 2

\* "error" in analysis
IsError(d) == Has(d, "error")

\* The status line, print(f"{severity:8} [{state:12}] {desc} ..."): a format
\* width raises TypeError on None and on a list, [:60] raises it on
\* anything that is neither a string nor a list.
PrintRaises(d) ==
    LET severity == Get(d, "severity", PyStr("UNKNOWN"))
        desc == Get(d, "description", PyStr(""))
        state == Get(d, "horse_state", PyStr("?"))
    IN  \/ severity.t \in {"none", "list"}
        \/ desc.t \notin {"str", "list"}
        \/ state.t \in {"none", "list"}

\* send_telegram_alert, line 275: ", ".join(analysis.get("hazards", []))
\* raises TypeError unless hazards is a string or a list of strings; the
\* call is outside the try of line 293.
JoinRaises(d) ==
    LET hazards == Get(d, "hazards", PyList(<<>>))
    IN  ~ \/ hazards.t = "str"
          \/ hazards.t = "list" /\ \A i \in 1..Len(hazards.a) : hazards.a[i].t = "str"

\* ts_str = f"{int(t//60):02d}:{int(t%60):02d}"
Pad2(n) == IF n >= 0 /\ n < 10 THEN "0" \o ToString(n) ELSE ToString(n)

TsStr(t) == Pad2(t \div 60) \o ":" \o Pad2(t % 60)

\* t += interval
NextPositionStuck(t, interval) == t

NextPosition(t, interval) == t + interval

\* wait = max(0, interval - latency)
WaitUnfloored(interval, latency) == interval - latency

Wait(interval, latency) == IF interval - latency > 0 THEN interval - latency ELSE 0

\* Where a KeyboardInterrupt raised inside the loop lands: the except clause
\* of monitor_camera (line 251) falls through to the save; monitor_video
\* has none.
OnInterruptUncaught(mode) == "crashed"

OnInterrupt(mode) == IF mode = "camera" THEN "summary" ELSE "crashed"

(***************************************************************************)
(* The replies the inference endpoint gives in a session, each with the    *)
(* seconds it took.                                                        *)
(***************************************************************************)
Member(key, value) == <<Str(key), COLON, SP, value>>

DangerObject == <<LBRACE>> \o Member("severity", Str("DANGER")) \o <<COMMA>> \o Member("description", Str("horse down")) \o <<COMMA>> \o <<Str("hazards"), COLON, LBRACK, Str("CASTING"), RBRACK, COMMA>> \o Member("horse_state", Str("lying")) \o <<COMMA>> \o Member("confidence", Num("0.9")) \o <<COMMA>> \o Member("recommended_action", Str("emergency")) \o <<RBRACE>>

\* A reply object with the six fields the prompt asks for.
SchemaObject(severity, description) == <<LBRACE>> \o Member("severity", Str(severity)) \o <<COMMA>> \o Member("description", description) \o <<COMMA>> \o <<Str("hazards"), COLON, LBRACK, Str("CASTING"), RBRACK, COMMA>> \o Member("horse_state", Str("lying")) \o <<COMMA>> \o Member("confidence", Num("0.9")) \o <<COMMA>> \o Member("recommended_action", Str("emergency")) \o <<RBRACE>>

SchemaSeverities == {"SAFE", "MONITOR", "WARNING", "DANGER"}

SchemaDescriptions == {Str("horse down"), FStr("keep out")}

SchemaObjects == {SchemaObject(severity, description) : severity \in SchemaSeverities, description \in SchemaDescriptions}

Reply(text, latency) == [text |-> text, latency |-> latency]

LoopReplies ==
    << Reply(<<FENCE, Word("json"), NL>> \o DangerObject \o <<NL, FENCE>>, 7),
       Reply(<<LBRACE>> \o Member("severity", Str("SAFE")) \o <<RBRACE>>, 1),
       Reply(<<LBRACE>> \o Member("severity", Str("WARNING")) \o <<COMMA>> \o Member("description", UStr("horse do")), 7),
       Reply(<<Word("prose"), NL, LBRACE>> \o Member("severity", Str("MONITOR")) \o <<RBRACE>>, 1),
       Reply(<<LBRACE>> \o Member("severity", Str("CRITICAL")) \o <<RBRACE>>, 1),
       Reply(<<LBRACE>> \o Member("severity", Str("WARNING")) \o <<COMMA>> \o Member("hazards", NULL) \o <<RBRACE>>, 1),
       Reply(<<LBRACK, RBRACK>>, 1),
       Reply(<<LBRACE>> \o Member("severity", Str("DANGER")) \o <<COMMA>> \o Member("horse_state", NULL) \o <<RBRACE>>, 1),
       Reply(<<LBRACE>> \o Member("confidence", Num("0.9.1")), 1) >>

\* Outcomes of the collaborators.
ExtractOutcomes == {"ok", "fail", "raise"}
EncodeOutcomes == {"ok", "empty", "raise"}
InferenceOutcomes == {"ok", "timed out"}
DispatchOutcomes == {"ok", "fail"}

\* Seconds an inference call takes.
Latencies == {1, 7}

\* The configurations of a session.
Intervals == {0, 5}

\* --interval is any float: the file loop is also run with a negative one.
FileIntervals == Intervals \cup {-5}
Durations == {0, 7, 22}
FrameCaps == {0, 2}

\* Iterations explored of a loop that nothing else ends: the file loop with
\* an interval of 0, the live loop with max_frames = 0.
MaxSpins == 3

VARIABLES
    mode,         \* "video" (monitor_video) or "camera" (monitor_camera)
    interval,     \* seconds between frames
    alert,        \* whether alerts are dispatched
    duration,     \* get_video_duration(video_path)
    max_frames,   \* the frame cap of the live loop, 0 = none
    pc,           \* where the session is
    t,            \* monitor_video: the position in the file
    frame_num,
    alert_count,
    results,      \* the timeline
    analysis,     \* what analyze_frame returned for the current frame
    encoded,      \* what encode_image did for this frame
    fault,        \* the exception text of the inference call of this frame
    elapsed,      \* the seconds the analysis call of this frame took
    outcome,      \* how this iteration ended, "none" while it runs
    wait,         \* live loop: the seconds of the sleep that ends the iteration
    extracted,    \* the positions (file) or frame numbers (live) handed to ffmpeg
    analysed,     \* the frames for which analyze_frame returned a dict
    sent,         \* the frames handed to the notification script
    saved,        \* the timeline file
    written,      \* how often the timeline file was written
    dispatch,     \* how the notification script ended for this frame
    interrupts,   \* where KeyboardInterrupt arrived
    reply,        \* the reply text under analysis (parsing alone)
    verdict,      \* what analyze_frame returned for reply
    frames,       \* analyze_directory: the frames to analyse, by rank in the sorted listing
    sample        \* analyze_directory: --sample

vars == <<mode, interval, alert, duration, max_frames, pc, t, frame_num, alert_count, results, analysis, encoded, fault, elapsed, outcome, wait, extracted, analysed, sent, dispatch, saved, written, interrupts, reply, verdict, frames, sample>>

config == <<mode, interval, alert, duration, max_frames>>

parsing == <<reply, verdict>>

listing == <<frames, sample>>

\* The statements inside the while loop; in monitor_camera, inside the try.
LoopPcs == {"loop", "extract", "extracting", "analyzing", "alerting", "append", "waiting"}

Init ==
    /\ mode \in {"video", "camera"}
    /\ interval \in (IF mode = "video" THEN FileIntervals ELSE Intervals)
    /\ alert \in BOOLEAN
    /\ duration \in (IF mode = "video" THEN Durations ELSE {0})
    /\ max_frames \in (IF mode = "camera" THEN FrameCaps ELSE {0})
    /\ pc = "start"
    /\ t = 0
    /\ frame_num = 0
    /\ alert_count = 0
    /\ results = <<>>
    /\ analysis = EmptyDict
    /\ encoded = "none"
    /\ fault = ""
    /\ elapsed = 0
    /\ outcome = "none"
    /\ wait = 0
    /\ extracted = <<>>
    /\ analysed = <<>>
    /\ sent = <<>>
    /\ dispatch = "none"
    /\ saved = <<>>
    /\ written = 0
    /\ interrupts = {}
    /\ reply = <<>>
    /\ verdict = EmptyDict
    /\ frames = <<>>
    /\ sample = 0

\* Lines 80-95 and 177-187: up to the loop.  The banner of line 89 prints
\* int(duration / interval): ZeroDivisionError when interval is 0.
video_start ==
    /\ pc = "start"
    /\ mode = "video"
    /\ pc' = IF duration <= 0 THEN "rejected" ELSE IF interval = 0 THEN "crashed" ELSE "loop"
    /\ UNCHANGED <<config, listing, t, frame_num, alert_count, results, analysis, encoded, fault, elapsed, outcome, wait, extracted, analysed, sent, dispatch, saved, written, interrupts, parsing>>

camera_start ==
    /\ pc = "start"
    /\ mode = "camera"
    /\ pc' = "loop"
    /\ UNCHANGED <<config, listing, t, frame_num, alert_count, results, analysis, encoded, fault, elapsed, outcome, wait, extracted, analysed, sent, dispatch, saved, written, interrupts, parsing>>

\* Lines 97-99: while t < duration: frame_num += 1
video_loop ==
    /\ pc = "loop"
    /\ mode = "video"
    /\ interval > 0 \/ frame_num < MaxSpins
    /\ IF t < duration
       THEN frame_num' = frame_num + 1 /\ pc' = "extract"
       ELSE frame_num' = frame_num /\ pc' = "summary"
    /\ analysis' = EmptyDict
    /\ encoded' = "none"
    /\ fault' = ""
    /\ elapsed' = 0
    /\ dispatch' = "none"
    /\ outcome' = "none"
    /\ UNCHANGED <<config, listing, t, alert_count, results, wait, extracted, analysed, sent, saved, written, interrupts, parsing>>

\* Lines 190-195: frame_num += 1; the frame cap
camera_loop ==
    /\ pc = "loop"
    /\ mode = "camera"
    /\ max_frames > 0 \/ frame_num < MaxSpins
    /\ frame_num' = frame_num + 1
    /\ pc' = IF max_frames > 0 /\ frame_num' > max_frames THEN "summary" ELSE "extract"
    /\ analysis' = EmptyDict
    /\ encoded' = "none"
    /\ fault' = ""
    /\ elapsed' = 0
    /\ dispatch' = "none"
    /\ outcome' = "none"
    /\ UNCHANGED <<config, listing, t, alert_count, results, wait, extracted, analysed, sent, saved, written, interrupts, parsing>>

\* Lines 102 and 207: ffmpeg is started on the current position / frame.
extract_call_early ==
    /\ pc \in {"extract", "alerting"}
    /\ extracted' = Append(extracted, IF mode = "video" THEN t ELSE frame_num)
    /\ pc' = "extracting"
    /\ UNCHANGED <<config, listing, t, frame_num, alert_count, results, analysis, encoded, fault, elapsed, outcome, wait, analysed, sent, dispatch, saved, written, interrupts, parsing>>

extract_call ==
    /\ pc = "extract"
    /\ extracted' = Append(extracted, IF mode = "video" THEN t ELSE frame_num)
    /\ pc' = "extracting"
    /\ UNCHANGED <<config, listing, t, frame_num, alert_count, results, analysis, encoded, fault, elapsed, outcome, wait, analysed, sent, dispatch, saved, written, interrupts, parsing>>

\* Lines 102-105 with extract_frame_at: "raise" is subprocess.run raising
\* (TimeoutExpired after 30 s, ffmpeg missing), which nothing catches.
video_extract ==
    /\ pc = "extracting"
    /\ mode = "video"
    /\ \E o \in ExtractOutcomes :
        CASE o = "raise" -> pc' = "crashed" /\ t' = t /\ outcome' = "capture_raised"
          [] o = "fail" -> pc' = "loop" /\ t' = NextPosition(t, interval) /\ outcome' = "capture_failed"
          [] OTHER -> pc' = "analyzing" /\ t' = t /\ outcome' = outcome
    /\ UNCHANGED <<config, listing, frame_num, alert_count, results, analysis, encoded, fault, elapsed, wait, extracted, analysed, sent, dispatch, saved, written, interrupts, parsing>>

\* Lines 207-211: the except clause of line 251 catches KeyboardInterrupt only.
camera_capture ==
    /\ pc = "extracting"
    /\ mode = "camera"
    /\ \E o \in ExtractOutcomes :
        CASE o = "raise" -> pc' = "crashed" /\ wait' = wait /\ outcome' = "capture_raised"
          [] o = "fail" -> pc' = "waiting" /\ wait' = interval /\ outcome' = "capture_failed"
          [] OTHER -> pc' = "analyzing" /\ wait' = wait /\ outcome' = outcome
    /\ UNCHANGED <<config, listing, t, frame_num, alert_count, results, analysis, encoded, fault, elapsed, extracted, analysed, sent, dispatch, saved, written, interrupts, parsing>>

\* The call analyze_frame(frame_path) of lines 111 and 216, on what the
\* collaborators did for this frame.
Analysed(enc, inf, i) == analyze_frame(enc, inf, LoopReplies[i].text, LoopReplies[i].latency, frame_num)

\* analysis.get("severity", "UNKNOWN") and its level, lines 118 and 134.
LevelOf(d) == SEVERITY_LEVELS(Get(d, "severity", PyStr("UNKNOWN")))

\* Lines 111-139: what the file loop does with r, the outcome of
\* analyze_frame, up to the dispatch.
video_handle(r, alerting) ==
    IF r.raised
    THEN /\ pc' = "crashed"
         /\ UNCHANGED <<analysis, analysed, t, alert_count, outcome>>
    ELSE /\ analysed' = Append(analysed, frame_num)
         /\ IF IsError(r.d)
            THEN /\ analysis' = r.d
                 /\ t' = NextPosition(t, interval)
                 /\ pc' = "loop"
                 /\ outcome' = "error"
                 /\ UNCHANGED alert_count
            ELSE IF PrintRaises(r.d)
            THEN /\ analysis' = r.d
                 /\ pc' = "crashed"
                 /\ UNCHANGED <<t, alert_count, outcome>>
            ELSE /\ analysis' = IF alerting THEN [r.d EXCEPT !["video_timestamp"] = PyStr(TsStr(t))] ELSE r.d
                 /\ alert_count' = IF alerting THEN alert_count + 1 ELSE alert_count
                 /\ pc' = IF alerting /\ alert THEN "alerting" ELSE "append"
                 /\ UNCHANGED <<t, outcome>>

video_result(r) == video_handle(r, ShouldAlert(LevelOf(r.d)))

video_analyze ==
    /\ pc = "analyzing"
    /\ mode = "video"
    /\ \E enc \in EncodeOutcomes, inf \in InferenceOutcomes, i \in 1..Len(LoopReplies) :
        /\ encoded' = enc
        /\ fault' = IF enc = "ok" /\ inf # "ok" THEN inf ELSE ""
        /\ elapsed' = IF enc = "ok" THEN LoopReplies[i].latency ELSE 0
        /\ video_result(Analysed(enc, inf, i))
    /\ UNCHANGED <<config, listing, frame_num, results, wait, extracted, sent, dispatch, saved, written, interrupts, parsing>>

\* Lines 216-242: the same in the live loop.
camera_handle(r, alerting) ==
    IF r.raised
    THEN /\ pc' = "crashed"
         /\ UNCHANGED <<analysis, analysed, wait, alert_count, outcome>>
    ELSE /\ analysed' = Append(analysed, frame_num)
         /\ IF IsError(r.d)
            THEN /\ analysis' = r.d
                 /\ wait' = interval
                 /\ pc' = "waiting"
                 /\ outcome' = "error"
                 /\ UNCHANGED alert_count
            ELSE IF PrintRaises(r.d)
            THEN /\ analysis' = r.d
                 /\ pc' = "crashed"
                 /\ UNCHANGED <<wait, alert_count, outcome>>
            ELSE /\ analysis' = r.d
                 /\ alert_count' = IF alerting THEN alert_count + 1 ELSE alert_count
                 /\ pc' = IF alerting /\ alert THEN "alerting" ELSE "append"
                 /\ UNCHANGED <<wait, outcome>>

camera_result(r) == camera_handle(r, ShouldAlert(LevelOf(r.d)))

camera_analyze ==
    /\ pc = "analyzing"
    /\ mode = "camera"
    /\ \E enc \in EncodeOutcomes, inf \in InferenceOutcomes, i \in 1..Len(LoopReplies) :
        /\ encoded' = enc
        /\ fault' = IF enc = "ok" /\ inf # "ok" THEN inf ELSE ""
        /\ elapsed' = IF enc = "ok" THEN LoopReplies[i].latency ELSE 0
        /\ camera_result(Analysed(enc, inf, i))
    /\ UNCHANGED <<config, listing, t, frame_num, results, extracted, sent, dispatch, saved, written, interrupts, parsing>>

\* Lines 139 and 242, send_telegram_alert: the message is built, then the
\* script is run; whatever the run raises is caught and logged.
send_telegram_alert ==
    /\ pc = "alerting"
    /\ IF JoinRaises(analysis)
       THEN pc' = "crashed" /\ UNCHANGED <<sent, dispatch>>
       ELSE /\ sent' = Append(sent, frame_num)
            /\ dispatch' \in DispatchOutcomes
            /\ pc' = "append"
    /\ UNCHANGED <<config, listing, t, frame_num, alert_count, results, analysis, encoded, fault, elapsed, outcome, wait, extracted, analysed, saved, written, interrupts, parsing>>

\* Lines 141-143
video_append ==
    /\ pc = "append"
    /\ mode = "video"
    /\ results' = Append(results, [analysis EXCEPT !["video_timestamp_s"] = PyInt(t)])
    /\ t' = NextPosition(t, interval)
    /\ outcome' = "verdict"
    /\ pc' = "loop"
    /\ UNCHANGED <<config, listing, frame_num, alert_count, analysis, encoded, fault, elapsed, wait, extracted, analysed, sent, dispatch, saved, written, interrupts, parsing>>

\* Lines 244-249; a wait of 0 is no sleep at all.
camera_append ==
    /\ pc = "append"
    /\ mode = "camera"
    /\ results' = Append(results, analysis)
    /\ wait' = Wait(interval, Get(analysis, "latency_s", PyInt(0)).n)
    /\ outcome' = "verdict"
    /\ pc' = IF wait' > 0 THEN "waiting" ELSE "loop"
    /\ UNCHANGED <<config, listing, t, frame_num, alert_count, analysis, encoded, fault, elapsed, extracted, analysed, sent, dispatch, saved, written, interrupts, parsing>>

\* time.sleep returns (lines 210, 220, 249).
camera_sleep ==
    /\ pc = "waiting"
    /\ pc' = "loop"
    /\ UNCHANGED <<config, listing, t, frame_num, alert_count, results, analysis, encoded, fault, elapsed, outcome, wait, extracted, analysed, sent, dispatch, saved, written, interrupts, parsing>>

\* Lines 145-165: the summary and the timeline file.
video_summary ==
    /\ pc = "summary"
    /\ mode = "video"
    /\ saved' = results
    /\ written' = written + 1
    /\ pc' = "stopped"
    /\ UNCHANGED <<config, listing, t, frame_num, alert_count, results, analysis, encoded, fault, elapsed, outcome, wait, extracted, analysed, sent, dispatch, interrupts, parsing>>

\* Lines 254-262: the file is written only if results is not empty.
camera_save ==
    /\ pc = "summary"
    /\ mode = "camera"
    /\ saved' = IF results # <<>> THEN results ELSE saved
    /\ written' = IF results # <<>> THEN written + 1 ELSE written
    /\ pc' = "stopped"
    /\ UNCHANGED <<config, listing, t, frame_num, alert_count, results, analysis, encoded, fault, elapsed, outcome, wait, extracted, analysed, sent, dispatch, interrupts, parsing>>

\* KeyboardInterrupt: inside the loop it lands where OnInterrupt says;
\* before the loop and in the summary nothing catches it.
interrupt ==
    /\ pc \in LoopPcs \cup {"start", "summary"}
    /\ pc' = IF pc \in LoopPcs THEN OnInterrupt(mode) ELSE "crashed"
    /\ interrupts' = interrupts \cup {pc}
    /\ UNCHANGED <<config, listing, t, frame_num, alert_count, results, analysis, encoded, fault, elapsed, outcome, wait, extracted, analysed, sent, dispatch, saved, written, parsing>>

Next ==
    \/ video_start
    \/ camera_start
    \/ video_loop
    \/ camera_loop
    \/ extract_call
    \/ video_extract
    \/ camera_capture
    \/ video_analyze
    \/ camera_analyze
    \/ send_telegram_alert
    \/ video_append
    \/ camera_append
    \/ camera_sleep
    \/ video_summary
    \/ camera_save
    \/ interrupt

Spec == Init /\ [][Next]_vars

(***************************************************************************)
(* analyze_frame alone, on the reply texts built below: an object of up    *)
(* to MaxMembers members (or another JSON value), whole or cut after any   *)
(* token or inside a string, bare or wrapped the ways a model wraps it.    *)
(***************************************************************************)
MaxMembers == 2

HazardsMember(value) == <<Str("hazards"), COLON>> \o value

MemberPool ==
    {Member("severity", v) : v \in {Str("SAFE"), Str("WARNING"), Str("CRITICAL"), NULL}}
      \cup {Member("description", Str("horse down")), Member("description", FStr("keep out")), Member("horse_state", NULL), Member("recommended_action", Str("emergency")), Member("error", Str("x"))}
      \cup {Member("confidence", v) : v \in {Num("0.9"), Num("0.9.1")}}
      \cup {HazardsMember(<<LBRACK, Str("CASTING"), RBRACK>>), HazardsMember(<<NULL>>)}

\* The members, separated by commas.
RECURSIVE Commas(_)
Commas(members) ==
    IF members = <<>> THEN <<>>
    ELSE IF Len(members) = 1 THEN members[1]
    ELSE members[1] \o <<COMMA, SP>> \o Commas(Tail(members))

Object(members) == <<LBRACE>> \o Commas(members) \o <<RBRACE>>

MemberLists == UNION {[1..n -> MemberPool] : n \in 0..MaxMembers}

Bodies == {Object(ms) : ms \in MemberLists} \cup SchemaObjects \cup {DangerObject, <<LBRACK, RBRACK>>, <<NULL>>, <<Str("WARNING")>>, <<Word("prose")>>}

\* The body cut after its k-th token, and cut inside its k-th token when
\* that is a string.
CutAfter(b, k) == SubSeq(b, 1, k)

CutInside(b, k) == SubSeq(b, 1, k - 1) \o <<UStr(b[k].v)>>

Cuts(b) == {CutAfter(b, k) : k \in 0..Len(b)} \cup {CutInside(b, k) : k \in {i \in 1..Len(b) : b[i].k = "str"}}

Wrappings(b) ==
    { b,
      <<NL>> \o b \o <<SP, NL>>,
      <<FENCE, Word("json"), NL>> \o b \o <<NL, FENCE>>,
      <<FENCE, NL>> \o b \o <<NL, FENCE, NL>>,
      <<FENCE, Word("json"), NL>> \o b,
      <<Word("prose"), NL>> \o b }

ReplyTexts == UNION {Wrappings(c) : c \in UNION {Cuts(b) : b \in Bodies}}

InitParse ==
    /\ mode = "frame"
    /\ interval = 0
    /\ alert = FALSE
    /\ duration = 0
    /\ max_frames = 0
    /\ pc = "reply"
    /\ t = 0
    /\ frame_num = 1
    /\ alert_count = 0
    /\ results = <<>>
    /\ analysis = EmptyDict
    /\ encoded = "none"
    /\ fault = ""
    /\ elapsed = 0
    /\ outcome = "none"
    /\ wait = 0
    /\ extracted = <<>>
    /\ analysed = <<>>
    /\ sent = <<>>
    /\ dispatch = "none"
    /\ saved = <<>>
    /\ written = 0
    /\ interrupts = {}
    /\ reply \in ReplyTexts
    /\ verdict = EmptyDict
    /\ frames = <<>>
    /\ sample = 0

\* What analyze_frame gave for the reply.
frame_result(r) ==
    /\ pc' = IF r.raised THEN "raised" ELSE "returned"
    /\ verdict' = r.d

\* main, line 449: result = analyze_frame(args.frame)
analyze_reply ==
    /\ pc = "reply"
    /\ \E enc \in EncodeOutcomes, inf \in InferenceOutcomes, latency \in Latencies :
        /\ encoded' = enc
        /\ fault' = IF enc = "ok" /\ inf # "ok" THEN inf ELSE ""
        /\ elapsed' = IF enc = "ok" THEN latency ELSE 0
        /\ frame_result(analyze_frame(enc, inf, reply, latency, frame_num))
    /\ UNCHANGED <<config, listing, t, frame_num, alert_count, results, analysis, outcome, wait, extracted, analysed, sent, dispatch, saved, written, interrupts, reply>>

NextParse == analyze_reply

SpecParse == InitParse /\ [][NextParse]_vars

(***************************************************************************)
(* analyze_directory: which frames of the directory are analysed.  A frame *)
(* is its rank in sorted(Path(frames_dir).glob("*.jpg")).                  *)
(***************************************************************************)
MaxListing == 10

MaxSample == 11

\* --sample is an int; nothing rejects a negative one.
Samples == -1..MaxSample

\* sorted(glob("*.jpg")) of a directory holding n frames.
Listings == {[i \in 1..n |-> i] : n \in 0..MaxListing}

max(a, b) == IF a >= b THEN a ELSE b

\* seq[::step] for step >= 1: the elements at offsets 0, step, 2 step, ...
SliceStep(seq, step) == [k \in 1..((Len(seq) + step - 1) \div step) |-> seq[(k - 1) * step + 1]]

\* seq[:stop] for stop >= 0.
SliceTo(seq, stop) == SubSeq(seq, 1, IF stop < Len(seq) THEN stop ELSE Len(seq))

StepOfCeil(n, s) == max(1, (n + s - 1) \div s)

\* Line 318: step = max(1, len(frames) // sample).
StepOf(n, s) == max(1, n \div s)

\* Lines 316-319.
SampleFrames(fr, s) == IF s > 0 THEN SliceTo(SliceStep(fr, StepOf(Len(fr), s)), s) ELSE fr

InitSample ==
    /\ mode = "directory"
    /\ interval = 0
    /\ alert = FALSE
    /\ duration = 0
    /\ max_frames = 0
    /\ pc = "start"
    /\ t = 0
    /\ frame_num = 0
    /\ alert_count = 0
    /\ results = <<>>
    /\ analysis = EmptyDict
    /\ encoded = "none"
    /\ fault = ""
    /\ elapsed = 0
    /\ outcome = "none"
    /\ wait = 0
    /\ extracted = <<>>
    /\ analysed = <<>>
    /\ sent = <<>>
    /\ dispatch = "none"
    /\ saved = <<>>
    /\ written = 0
    /\ interrupts = {}
    /\ reply = <<>>
    /\ verdict = EmptyDict
    /\ frames = <<>>
    /\ sample \in Samples

\* Lines 311-314: the sorted listing; an empty one returns [].
list_frames ==
    /\ mode = "directory"
    /\ pc = "start"
    /\ \E fr \in Listings :
         /\ frames' = fr
         /\ pc' = IF fr = <<>> THEN "empty" ELSE "listed"
    /\ UNCHANGED <<config, sample, t, frame_num, alert_count, results, analysis, encoded, fault, elapsed, outcome, wait, extracted, analysed, sent, dispatch, saved, written, interrupts, parsing>>

\* Lines 316-319: the frames the loop of line 330 goes through.
sample_frames ==
    /\ mode = "directory"
    /\ pc = "listed"
    /\ frames' = SampleFrames(frames, sample)
    /\ pc' = "sampled"
    /\ UNCHANGED <<config, sample, t, frame_num, alert_count, results, analysis, encoded, fault, elapsed, outcome, wait, extracted, analysed, sent, dispatch, saved, written, interrupts, parsing>>

NextSample == list_frames \/ sample_frames

SpecSample == InitSample /\ [][NextSample]_vars

(***************************************************************************)
(* The claims.                                                             *)
(***************************************************************************)
\* A result of analyze_frame without an error cause.
IsVerdict(d) == d # EmptyDict /\ ~IsError(d)

KnownSeverities == {PyStr("SAFE"), PyStr("MONITOR"), PyStr("WARNING"), PyStr("DANGER")}

\* C1: in both loops, once the loop is done with a frame whose analysis
\* returned a verdict (it is about to append the record, or the session has
\* ended on it without an interrupt), the notification script was run for
\* that frame if and only if alerts are enabled and the severity is WARNING
\* or DANGER.
C1_DispatchIffAlertAndLevel ==
    (IsVerdict(analysis) /\ pc \in {"append", "crashed"} /\ interrupts = {})
        => ((\E i \in 1..Len(sent) : sent[i] = frame_num) <=> (alert /\ analysis["severity"] \in {PyStr("WARNING"), PyStr("DANGER")}))

\* C2: every verdict analyze_frame returns has a severity, and it is one of
\* SAFE, MONITOR, WARNING, DANGER; it is MONITOR when the reply text has no
\* severity field.
C2_SeverityAlwaysKnown ==
    (pc = "returned" /\ IsVerdict(verdict))
        => /\ verdict["severity"] \in KnownSeverities
           /\ (\A i \in 1..Len(reply) : reply[i] # Str("severity")) => verdict["severity"] = PyStr("MONITOR")

\* C3: an encode failure or an inference failure of a frame gives an
\* AnalysisError for that frame and the loop goes on: it is at the top of
\* the loop or in the sleep before it, never ended by the failure.
C3_AnalysisFailureNeverFatal ==
    ((encoded \in {"empty", "raise"} \/ fault # "") /\ mode \in {"video", "camera"} /\ interrupts = {})
        => (IsError(analysis) /\ pc \in {"loop", "waiting"})

\* C4: every failure of the extraction call, its timeout included, skips
\* the slot: the loop goes on to the wait and the next slot, nothing is
\* appended to the timeline, no alert is dispatched and the alert count is
\* unchanged.
C4_ExtractionFailureSkipsSlot ==
    [][(pc = "extracting" /\ outcome' \in {"capture_failed", "capture_raised"})
          => (pc' \in {"loop", "waiting"} /\ results' = results /\ sent' = sent /\ alert_count' = alert_count)]_vars

\* An iteration of the live loop has ended: it sleeps, or it is back at the
\* top of the loop without a sleep.
IterationEnded == mode = "camera" /\ (pc = "waiting" \/ (pc = "loop" /\ outcome # "none"))

\* C5 as stated: whatever the outcome of the iteration, the wait is
\* max(0, interval - the seconds the analysis of this iteration took).
C5_WaitIsIntervalMinusLatency ==
    IterationEnded => wait = (IF interval - elapsed > 0 THEN interval - elapsed ELSE 0)

\* C5 as amended: the wait is never negative; after a verdict it is
\* max(0, interval - latency_s of the verdict); after a capture failure or
\* an analysis error it is the whole interval.
C5_WaitAfterVerdictElseInterval ==
    IterationEnded =>
        /\ wait >= 0
        /\ outcome = "verdict" =>
              /\ results # <<>>
              /\ LET latency == results[Len(results)]["latency_s"].n
                 IN  wait = (IF latency >= interval THEN 0 ELSE interval - latency)
        /\ outcome \in {"error", "capture_failed"} => wait = interval

\* C5, the case of the claim: interval 5 and a latency of 7 give no wait.
C5_Witness ==
    /\ IterationEnded
    /\ outcome = "verdict"
    /\ interval = 5
    /\ results[Len(results)]["latency_s"].n = 7
    /\ wait = 0
    /\ pc = "loop"

\* The positions 0, I, 2I, ... below D.
Positions(D, I) == [k \in 1..((D + I - 1) \div I) |-> (k - 1) * I]

\* C6: a file session with D > 0 and I > 0 that has ended without an
\* interrupt has attempted extraction at exactly the positions 0, I, 2I, ...
\* below D, once each and in increasing order.
C6_ExtractsEveryPosition ==
    (mode = "video" /\ duration > 0 /\ interval > 0 /\ interrupts = {} /\ pc \in {"stopped", "crashed"})
        => extracted = Positions(duration, interval)

\* C7: a live session interrupted during capture, analysis, alert dispatch
\* or waiting ends cleanly, and once stopped the timeline file holds every
\* record accumulated.
C7_InterruptPersistsTimeline ==
    (mode = "camera" /\ interrupts # {} /\ interrupts \subseteq LoopPcs)
        => (pc \in {"summary", "stopped"} /\ (pc = "stopped" => saved = results))

C7_Witness ==
    /\ mode = "camera"
    /\ interrupts = {"analyzing"}
    /\ pc = "stopped"
    /\ Len(results) = 2
    /\ saved = results

\* C8: once the inference call has returned text, analyze_frame returns a
\* Verdict, never an AnalysisError; a text that fails the strict parse gives
\* a Verdict with truncated = true.
C8_TextAlwaysGivesVerdict ==
    (pc = "returned" /\ encoded = "ok" /\ fault = "")
        => /\ IsVerdict(verdict)
           /\ ~JsonLoads(CleanReply(reply)).ok => verdict["truncated"] = PyTrue

C10_TimelineHoldsEveryAnalysedFrame ==
    (pc = "loop" /\ mode \in {"video", "camera"})
        => (Len(results) = Len(analysed) /\ \A i \in 1..Len(results) : results[i]["frame"].n = analysed[i])

\* C11: the step of the alert dispatch, whatever fails in it, goes on to
\* appending the frame's verdict, which it leaves as it is: the loop is not
\* ended by it.
C11_DispatchFailureSwallowed ==
    [][(pc = "alerting" /\ interrupts' = interrupts) => (pc' = "append" /\ analysis' = analysis)]_vars

\* The Verdict whose fields are the values of SchemaObject(severity,
\* description), without the keys analyze_frame stamps on it.
SchemaVerdict(severity, description) ==
    [EmptyDict EXCEPT !["severity"] = PyStr(severity),
                      !["description"] = PyStr(StrText(description)),
                      !["hazards"] = PyList(<<PyStr("CASTING")>>),
                      !["horse_state"] = PyStr("lying"),
                      !["confidence"] = PyFloat("0.9"),
                      !["recommended_action"] = PyStr("emergency")]

SchemaFields == {"severity", "description", "hazards", "horse_state", "confidence", "recommended_action"}

\* C12: a reply that is a JSON object with the six fields of the schema,
\* alone or with whitespace around it, gives a Verdict that is not marked
\* truncated and whose six fields are the values of the JSON.
C12_SchemaJsonParsedAsIs ==
    \A severity \in SchemaSeverities, description \in SchemaDescriptions :
        (pc = "returned" /\ encoded = "ok" /\ fault = "" /\ Strip(reply) = SchemaObject(severity, description))
            => /\ IsVerdict(verdict)
               /\ verdict["truncated"] # PyTrue
               /\ \A key \in SchemaFields : verdict[key] = SchemaVerdict(severity, description)[key]

\* The text has a well-formed  "severity": "WARNING".
HasSeverityWarning(text) ==
    \E i \in 1..Len(text) : i + 3 <= Len(text) /\ SubSeq(text, i, i + 3) = Member("severity", Str("WARNING"))

\* The text opens an object and ends before the object is closed.
TruncatedMidObject(text) ==
    /\ \E i \in 1..Len(text) : text[i] = LBRACE
    /\ \A i \in 1..Len(text) : text[i] # RBRACE

\* C13: a reply cut mid-object, on which the strict parse fails, that has a
\* well-formed "severity": "WARNING" gives a Verdict with severity WARNING
\* and truncated = true.
C13_TruncatedWarningRecovered ==
    (pc = "returned" /\ encoded = "ok" /\ fault = "" /\ TruncatedMidObject(reply) /\ HasSeverityWarning(reply) /\ ~JsonLoads(CleanReply(reply)).ok)
        => /\ IsVerdict(verdict)
           /\ verdict["severity"] = PyStr("WARNING")
           /\ verdict["truncated"] = PyTrue

\* J wrapped in a fence, with and without the json tag.
FencedTexts(J) == {<<FENCE, Word("json"), NL>> \o J \o <<NL, FENCE>>, <<FENCE, NL>> \o J \o <<NL, FENCE, NL>>}

\* C14: a schema object J wrapped in a fence, with or without the json tag,
\* gives the Verdict J alone gives, not marked truncated; for the DANGER
\* scenario it has severity DANGER and hazards {CASTING}, and its level
\* raises an alert.
C14_FencedParsesAsBare ==
    \A J \in SchemaObjects :
        (pc = "returned" /\ encoded = "ok" /\ fault = "" /\ reply \in FencedTexts(J))
            => /\ IsVerdict(verdict)
               /\ verdict = ParseReply(J, elapsed, frame_num)
               /\ verdict["truncated"] # PyTrue
               /\ J = DangerObject =>
                    /\ verdict["severity"] = PyStr("DANGER")
                    /\ verdict["hazards"] = PyList(<<PyStr("CASTING")>>)
                    /\ ShouldAlert(LevelOf(verdict))

\* severity = analysis.get("severity", "UNKNOWN")
SeverityOf(d) == Get(d, "severity", PyStr("UNKNOWN"))

\* The loop has a verdict in hand and has computed its level.
LevelComputed == mode \in {"video", "camera"} /\ pc \in {"alerting", "append"} /\ IsVerdict(analysis)

\* The four levels of the known labels, in the declared order.
KnownLevelsInOrder ==
    /\ SeverityOf(analysis) = PyStr("SAFE") => LevelOf(analysis) = 0
    /\ SeverityOf(analysis) = PyStr("MONITOR") => LevelOf(analysis) = 1
    /\ SeverityOf(analysis) = PyStr("WARNING") => LevelOf(analysis) = 2
    /\ SeverityOf(analysis) = PyStr("DANGER") => LevelOf(analysis) = 3

\* C15 as stated: the known labels have the levels 0, 1, 2, 3, and every
\* other label has level 0, a level that SAFE does not have.
C15_UnknownLevelDistinctFromSafe ==
    LevelComputed =>
        /\ KnownLevelsInOrder
        /\ SeverityOf(analysis) \notin KnownSeverities =>
              (LevelOf(analysis) = 0 /\ LevelOf(analysis) # SEVERITY_LEVELS(PyStr("SAFE")))

\* C15 as amended: the known labels have the levels 0, 1, 2, 3, and every
\* other label has level 0, the level of SAFE, so it raises no alert.
C15_UnknownLevelIsSafeLevel ==
    LevelComputed =>
        /\ KnownLevelsInOrder
        /\ SeverityOf(analysis) \notin KnownSeverities =>
              /\ LevelOf(analysis) = 0
              /\ LevelOf(analysis) = SEVERITY_LEVELS(PyStr("SAFE"))
              /\ pc = "append"
              /\ \A i \in 1..Len(sent) : sent[i] # frame_num

\* C15, the case of the claim: a verdict with a label outside the four is
\* about to be appended without an alert, after a DANGER verdict was.
C15_Witness ==
    /\ LevelComputed
    /\ SeverityOf(analysis) = PyStr("CRITICAL")
    /\ pc = "append"
    /\ alert
    /\ results # <<>>
    /\ results[Len(results)]["severity"] = PyStr("DANGER")
    /\ alert_count = 1

\* The session is over: it has stopped, or an interrupt inside the loop has
\* ended it.
SessionEnded ==
    /\ mode \in {"video", "camera"}
    /\ pc = "stopped" \/ (pc = "crashed" /\ interrupts # {} /\ interrupts \subseteq LoopPcs)

\* C16: the timeline file is written at most once, never before the loop is
\* over, and a session that is over (source exhausted, frame cap reached or
\* interrupt) has written it, with every record appended.
C16_TimelineWrittenOnceAtEnd ==
    /\ written <= 1
    /\ pc \in LoopPcs \cup {"start", "summary"} => written = 0
    /\ SessionEnded => (written = 1 /\ saved = results)

\* An external call did not return (it raised) or an interrupt came.
ExternalCallFailed == outcome = "capture_raised" \/ encoded = "raise" \/ interrupts # {}

\* A step that ends an iteration of the file loop.
FileIterationEnds == mode = "video" /\ pc \in {"extracting", "analyzing", "append"} /\ pc' = "loop"

\* C17: for every duration D > 0 and every interval, the file session is
\* not ended before its first iteration while every external call returns,
\* and the position is strictly larger after every iteration, the failed
\* ones included.
C17_FileLoopAlwaysAdvances ==
    /\ []((mode = "video" /\ duration > 0 /\ pc = "crashed" /\ frame_num = 0) => ExternalCallFailed)
    /\ [][FileIterationEnds => t' > t]_vars

\* The frame a stage last worked on, 0 when it has not worked yet.
LastOf(seq) == IF seq = <<>> THEN 0 ELSE seq[Len(seq)]

\* C18: an extraction starts only at the start of an iteration, when every
\* earlier frame is done with; the analysis of a frame starts after its
\* extraction, its alert dispatch after its analysis, its record is
\* appended after the dispatch it needs, and the wait comes last: no stage
\* works on a frame other than the current one.
C18_OneFrameInFlightInOrder ==
    [][/\ extracted' # extracted =>
            /\ pc = "extract"
            /\ Len(extracted) = frame_num - 1
            /\ LastOf(analysed) < frame_num
            /\ LastOf(sent) < frame_num
            /\ Len(results) < frame_num
       /\ analysed' # analysed =>
            /\ pc = "analyzing"
            /\ Len(extracted) = frame_num
            /\ LastOf(analysed) < frame_num
            /\ LastOf(analysed') = frame_num
       /\ sent' # sent =>
            /\ pc = "alerting"
            /\ LastOf(analysed) = frame_num
            /\ LastOf(sent) < frame_num
            /\ LastOf(sent') = frame_num
       /\ results' # results =>
            /\ pc = "append"
            /\ LastOf(analysed) = frame_num
            /\ results'[Len(results')]["frame"] = PyInt(frame_num)
            /\ (alert /\ ShouldAlert(LevelOf(analysis))) => LastOf(sent) = frame_num
       /\ (pc' = "waiting" /\ pc # "waiting") =>
            /\ pc \in {"extracting", "analyzing", "append"}
            /\ Len(extracted) = frame_num
            /\ pc = "append" => results'[Len(results')]["frame"] = PyInt(frame_num)
      ]_vars

\* C18, the case of the claim: the second frame of a live session is
\* extracted after the first went through analysis, dispatch and append.
C18_Witness ==
    /\ mode = "camera"
    /\ pc = "extracting"
    /\ extracted = <<1, 2>>
    /\ analysed = <<1>>
    /\ sent = <<1>>
    /\ Len(results) = 1
    /\ interval = 5
    /\ alert_count = 1

\* C19: a live session with frame cap N > 0 that is over without an
\* interrupt has stopped after exactly N capture attempts, failed captures
\* and errored analyses included; with cap 0 a live session has stopped
\* only after an interrupt.
C19_FrameCapCountsEveryAttempt ==
    /\ (mode = "camera" /\ max_frames > 0 /\ interrupts = {} /\ pc \in {"stopped", "crashed"})
          => (pc = "stopped" /\ extracted = [k \in 1..max_frames |-> k])
    /\ (mode = "camera" /\ max_frames = 0 /\ pc = "stopped") => interrupts # {}

\* The records of a timeline whose severity is WARNING or DANGER.
AlertRecords(timeline) == {i \in 1..Len(timeline) : timeline[i]["severity"] \in {PyStr("WARNING"), PyStr("DANGER")}}

\* C20: when a session has stopped, however it ended, its alert count is
\* the number of WARNING and DANGER records of the timeline it accumulated
\* and, when it wrote one, of the file.
C20_AlertCountMatchesTimeline ==
    (mode \in {"video", "camera"} /\ pc = "stopped")
        => /\ alert_count = Cardinality(AlertRecords(results))
           /\ written = 1 => alert_count = Cardinality(AlertRecords(saved))

\* C21: when a session has stopped, by exhaustion, by the frame cap or by
\* an interrupt, the frame count it reports is the number of extraction or
\* capture attempts it made.
C21_FrameCountIsAttempts ==
    (mode \in {"video", "camera"} /\ pc = "stopped") => frame_num = Len(extracted)

\* C22: in analyze_directory with n >= 1 frames and sample = s > 0 the
\* frames analysed are min(s, n) distinct frames in sorted order, the k-th
\* of them being the frame at offset (k - 1) * max(1, n div s) of the sorted
\* listing; with s = 0 they are all n frames.
C22_SampleIsStridedPrefix ==
    [][(pc = "listed" /\ pc' = "sampled") =>
          /\ sample > 0 =>
               /\ Len(frames') = (IF sample < Len(frames) THEN sample ELSE Len(frames))
               /\ \A k \in 1..Len(frames') :
                    frames'[k] = frames[1 + (k - 1) * (IF Len(frames) \div sample >= 1 THEN Len(frames) \div sample ELSE 1)]
               /\ \A j, k \in 1..Len(frames') : j < k => frames'[j] < frames'[k]
          /\ sample = 0 => frames' = frames]_vars

\* Three of ten or more frames: the first, the fourth and the seventh.
C22_Witness ==
    mode = "directory" /\ pc = "sampled" /\ sample = 3 /\ frames = <<1, 4, 7>>

====
